---- MODULE Spec2Model ----
(***************************************************************************)
(* ScrAIbe: Diariser (scraibe/diarisation.py) and AudioProcessor           *)
(* (autotranscript/audio.py).                                              *)
(*                                                                         *)
(* Python sequences are 0-based; the model keeps the code's 0-based        *)
(* indices as values and reads sequences through At / PySlice.             *)
(***************************************************************************)
EXTENDS Integers, Sequences, FiniteSets, TLC

VARIABLES
    \* ---- Diariser.format_diarization_output (locals of the call) ----
    pc,                    \* position in the running call
    dia_list,              \* list(dia.itertracks(yield_label=True))
    normalized_output,     \* list of [index_start, index_end, speaker]
    index_start_speaker,
    index_end_speaker,
    current_speaker,
    i,                     \* enumerate() index of the scan loop
    k,                     \* position of the second loop in normalized_output
    diarization_output,    \* {"speakers": [...], "segments": [...]}
    err,                   \* exception that ended the call, or "none"
    \* ---- AudioProcessor ----
    ap,                    \* "new", "constructed" or "raised" (__init__ raised)
    waveform,              \* self.waveform
    sr,                    \* self.sr, a Python value [kind, v]
    device,                \* device the waveform was moved to
    ap_err,                \* exception raised by __init__, or "none"
    cut_args,              \* (start, end) of the last cut, in ticks; <<>> before
    cut_out,               \* what the last cut returned
    \* ---- Diariser.diarization ----
    params,                \* **kwargs as the caller passed them
    kwargs,                \* kwargs after line 82
    model_calls,           \* keyword arguments of each self.model(...) call
    \* ---- Diariser.load_model, _get_token, _save_token ----
    token_file,            \* the file at TOKEN_PATH: [exists, content]
    saved,                 \* tokens handed to _save_token so far, latest last
    config_seg,            \* config['pipeline']['params']['segmentation']
    call                   \* the last completed call and its outcome

fmtVars == <<pc, dia_list, normalized_output, index_start_speaker,
             index_end_speaker, current_speaker, i, k, diarization_output, err>>

audioVars == <<ap, waveform, sr, device, ap_err, cut_args, cut_out>>

diaVars == <<params, kwargs, model_calls>>

storeVars == <<token_file, saved, config_seg, call>>

vars == <<fmtVars, audioVars, diaVars, storeVars>>

\* ------------------------------------------------------------------ bounds
MaxLen == 4       \* longest raw trace
MaxTime == 2      \* interval end points range over 0..MaxTime
MaxSamples == 3   \* longest waveform
MaxRate == 2      \* sample rates range over 1..MaxRate
TicksPerSecond == 2  \* cut times are multiples of 1/TicksPerSecond s
MaxTick == 4      \* cut times range over -MaxTick..MaxTick ticks
MaxSaved == 2     \* _save_token calls remembered in saved

\* ------------------------------------------------------------- raw traces
Speakers == {"SPEAKER_00", "SPEAKER_01"}
Tracks == {"A", "B"}

\* pyannote Segment: start < end (an Annotation holds no empty segment)
Intervals == {iv \in [start : 0..MaxTime, end : 0..MaxTime] : iv.start < iv.end}

\* one element of itertracks(yield_label=True): (segment, track, label)
Triples == Intervals \X Tracks \X Speakers

\* itertracks yields in (segment.start, segment.end, track) order, each
\* (segment, track) once
TrackBefore(t, u) ==
    \/ t[1].start < u[1].start
    \/ t[1].start = u[1].start /\ t[1].end < u[1].end
    \/ t[1] = u[1] /\ t[2] = "A" /\ u[2] = "B"

RECURSIVE TracesOfLen(_)
TracesOfLen(n) ==
    IF n = 0 THEN {<<>>}
    ELSE {Append(s, t) : <<s, t>> \in
            {p \in TracesOfLen(n - 1) \X Triples :
                p[1] = <<>> \/ TrackBefore(p[1][Len(p[1])], p[2])}}

Traces == UNION {TracesOfLen(n) : n \in 0..MaxLen}

\* Python indexing seq[idx] for 0 <= idx < len(seq)
At(seq, idx) == seq[idx + 1]

\* ------------------------------------------- format_diarization_output
\* variant: the single-element special case also taken for an empty list
BranchSingleOrEmpty(dl) == Len(dl) <= 1

\* line 116: if len(dia_list) == 1
BranchSingle(dl) == Len(dl) = 1

\* lines 122-123: if i == 0: current_speaker = speaker
FirstSpeaker(idx, speaker, cur) == IF idx = 0 THEN speaker ELSE cur

\* line 125: if speaker != current_speaker
SpeakerChanged(speaker, cur) == speaker # cur

\* line 136: if i == len(dia_list) - 1
IsLastIndex(idx, dl) == idx = Len(dl) - 1

\* variant: line 134 (current_speaker = speaker) left out
ScanBodyStaleSpeaker(dl, idx, st) ==
    LET speaker == At(dl, idx)[3]
        cur0 == FirstSpeaker(idx, speaker, st.cur)
        s1 == IF SpeakerChanged(speaker, cur0)
              THEN [start |-> idx,
                    end   |-> idx - 1,
                    cur   |-> cur0,
                    out   |-> Append(st.out, <<st.start, idx - 1, cur0>>)]
              ELSE [st EXCEPT !.cur = cur0]
    IN  IF IsLastIndex(idx, dl)
        THEN [s1 EXCEPT !.end = idx,
                        !.out = Append(s1.out, <<s1.start, idx, s1.cur>>)]
        ELSE s1

\* variant: line 133 sets index_start_speaker = i + 1, so the interval at
\* which the speaker changes belongs to no run
ScanBodySkipsBoundary(dl, idx, st) ==
    LET speaker == At(dl, idx)[3]
        cur0 == FirstSpeaker(idx, speaker, st.cur)
        s1 == IF SpeakerChanged(speaker, cur0)
              THEN [start |-> IF IsLastIndex(idx, dl) THEN idx ELSE idx + 1,
                    end   |-> idx - 1,
                    cur   |-> speaker,
                    out   |-> Append(st.out, <<st.start, idx - 1, cur0>>)]
              ELSE [st EXCEPT !.cur = cur0]
    IN  IF IsLastIndex(idx, dl)
        THEN [s1 EXCEPT !.end = idx,
                        !.out = Append(s1.out, <<s1.start, idx, s1.cur>>)]
        ELSE s1

\* variant: line 136 written as elif, so the end-of-scan close is skipped
\* when the speaker changes at the last index
ScanBodyElif(dl, idx, st) ==
    LET speaker == At(dl, idx)[3]
        cur0 == FirstSpeaker(idx, speaker, st.cur)
    IN  IF SpeakerChanged(speaker, cur0)
        THEN [start |-> idx,
              end   |-> idx - 1,
              cur   |-> speaker,
              out   |-> Append(st.out, <<st.start, idx - 1, cur0>>)]
        ELSE IF IsLastIndex(idx, dl)
        THEN [start |-> st.start,
              end   |-> idx,
              cur   |-> cur0,
              out   |-> Append(st.out, <<st.start, idx, cur0>>)]
        ELSE [st EXCEPT !.cur = cur0]

\* lines 120-142: one iteration of the scan loop on the loop state
\* st = [start, end, cur, out]
ScanBody(dl, idx, st) ==
    LET speaker == At(dl, idx)[3]
        cur0 == FirstSpeaker(idx, speaker, st.cur)
        s1 == IF SpeakerChanged(speaker, cur0)
              THEN [start |-> idx,
                    end   |-> idx - 1,
                    cur   |-> speaker,
                    out   |-> Append(st.out, <<st.start, idx - 1, cur0>>)]
              ELSE [st EXCEPT !.cur = cur0]
    IN  IF IsLastIndex(idx, dl)
        THEN [s1 EXCEPT !.end = idx,
                        !.out = Append(s1.out, <<s1.start, idx, s1.cur>>)]
        ELSE s1

\* variant: line 146 reads the end of the run's first interval
BuildEntryFirstEnd(dl, outp, o) ==
    [speakers |-> Append(o.speakers, outp[3]),
     segments |-> Append(o.segments,
                         <<At(dl, outp[1])[1].start, At(dl, outp[1])[1].end>>)]

\* lines 145-149: one entry of normalized_output turned into output
BuildEntry(dl, outp, o) ==
    [speakers |-> Append(o.speakers, outp[3]),
     segments |-> Append(o.segments,
                         <<At(dl, outp[1])[1].start, At(dl, outp[2])[1].end>>)]

EmptyOutput == [speakers |-> <<>>, segments |-> <<>>]

\* lines 103-109
FormatInit ==
    /\ pc = "start"
    /\ dia_list \in Traces
    /\ normalized_output = <<>>
    /\ index_start_speaker = 0
    /\ index_end_speaker = 0
    /\ current_speaker = ""
    /\ i = 0
    /\ k = 0
    /\ diarization_output = EmptyOutput
    /\ err = "none"

\* lines 116-117
FormatSingle ==
    /\ pc = "start"
    /\ BranchSingle(dia_list)
    /\ IF Len(dia_list) >= 1
       THEN /\ normalized_output' = Append(normalized_output,
                                           <<0, 0, At(dia_list, 0)[3]>>)
            /\ pc' = "build"
            /\ err' = err
       ELSE /\ err' = "IndexError"
            /\ pc' = "raised"
            /\ UNCHANGED normalized_output
    /\ UNCHANGED <<dia_list, index_start_speaker, index_end_speaker,
                   current_speaker, i, k, diarization_output>>

\* line 118-120: the else branch enters the for loop
FormatEnterLoop ==
    /\ pc = "start"
    /\ ~BranchSingle(dia_list)
    /\ pc' = "scan"
    /\ UNCHANGED <<dia_list, normalized_output, index_start_speaker,
                   index_end_speaker, current_speaker, i, k,
                   diarization_output, err>>

\* lines 120-142
ScanIteration ==
    /\ pc = "scan"
    /\ i < Len(dia_list)
    /\ LET st == ScanBody(dia_list, i,
                          [start |-> index_start_speaker,
                           end   |-> index_end_speaker,
                           cur   |-> current_speaker,
                           out   |-> normalized_output])
       IN  /\ index_start_speaker' = st.start
           /\ index_end_speaker' = st.end
           /\ current_speaker' = st.cur
           /\ normalized_output' = st.out
    /\ i' = i + 1
    /\ UNCHANGED <<pc, dia_list, k, diarization_output, err>>

\* line 120: the iterator is exhausted
ScanExhausted ==
    /\ pc = "scan"
    /\ i = Len(dia_list)
    /\ pc' = "build"
    /\ UNCHANGED <<dia_list, normalized_output, index_start_speaker,
                   index_end_speaker, current_speaker, i, k,
                   diarization_output, err>>

\* lines 144-149
BuildStep ==
    /\ pc = "build"
    /\ k < Len(normalized_output)
    /\ diarization_output' =
          BuildEntry(dia_list, At(normalized_output, k), diarization_output)
    /\ k' = k + 1
    /\ UNCHANGED <<pc, dia_list, normalized_output, index_start_speaker,
                   index_end_speaker, current_speaker, i, err>>

\* line 150
FormatReturn ==
    /\ pc = "build"
    /\ k = Len(normalized_output)
    /\ pc' = "done"
    /\ UNCHANGED <<dia_list, normalized_output, index_start_speaker,
                   index_end_speaker, current_speaker, i, k,
                   diarization_output, err>>

\* ------------------------------------------------------- AudioProcessor
AudioIdle ==
    /\ ap = "new"
    /\ waveform = <<>>
    /\ sr = [kind |-> "unset", v |-> 0]
    /\ device = "unset"
    /\ ap_err = "none"
    /\ cut_args = <<>>
    /\ cut_out = <<>>

FormatIdle ==
    /\ pc = "idle"
    /\ dia_list = <<>>
    /\ normalized_output = <<>>
    /\ index_start_speaker = 0
    /\ index_end_speaker = 0
    /\ current_speaker = ""
    /\ i = 0
    /\ k = 0
    /\ diarization_output = EmptyOutput
    /\ err = "none"

Samples == {0, 1}
Waveforms == UNION {[1..n -> Samples] : n \in 0..MaxSamples}

\* Python values passed as sr: an int, a float, a list of two rates, a
\* 0-dim tensor, a 1-dim tensor of one rate, None
SrValues ==
    [kind : {"int", "float"}, v : 1..MaxRate]
    \cup {[kind |-> "list", v |-> 2], [kind |-> "tensor0", v |-> 1],
          [kind |-> "tensor1", v |-> 1], [kind |-> "None", v |-> 0]}

\* line 36: isinstance(self.sr, int)
IsInt(x) == x.kind = "int"

\* len(self.sr) inside the f-string of line 38: defined for a list and a
\* tensor of one dimension, TypeError for a float, None and a 0-dim tensor
HasLen(x) == x.kind \in {"list", "tensor1"}

\* lines 36-38: the exception raised by the check of self.sr
SrCheck(x) ==
    IF IsInt(x) THEN "none"
    ELSE IF HasLen(x) THEN "ValueError"
    ELSE "TypeError"

\* lines 25-31
ResolveDevice(kw, cuda) ==
    IF kw # "absent" THEN kw
    ELSE IF cuda THEN "cuda" ELSE "cpu"

\* lines 12-38; kw is kwargs["device"] or "absent", cuda is
\* torch.cuda.is_available(); an explicit device is one that exists
Construct ==
    /\ ap = "new"
    /\ \E w \in Waveforms, x \in SrValues, cuda \in BOOLEAN,
          kw \in {"absent", "cpu", "cuda"} :
          /\ kw = "cuda" => cuda
          /\ waveform' = w
          /\ device' = ResolveDevice(kw, cuda)
          /\ sr' = x
          /\ ap_err' = SrCheck(x)
          /\ ap' = IF SrCheck(x) = "none" THEN "constructed" ELSE "raised"
    /\ UNCHANGED <<cut_args, cut_out>>

\* int(t): truncation toward zero of the rational a / b, b > 0
TruncDiv(a, b) == IF a >= 0 THEN a \div b ELSE -((-a) \div b)

\* torch.ceil of the rational a / b, b > 0
CeilDiv(a, b) == -((-a) \div b)

\* line 70: start = int(start * sr), start given in ticks
CutStartIndex(t, rate) == TruncDiv(t * rate, TicksPerSecond)

\* line 71: end = torch.ceil(end * sr), end given in ticks
CutEndIndex(t, rate) == CeilDiv(t * rate, TicksPerSecond)

\* slice bound of seq[a:b]: a negative bound counts from the end, and the
\* result is clamped to 0..len
SliceBound(x, n) ==
    LET y == IF x < 0 THEN x + n ELSE x
    IN  IF y < 0 THEN 0 ELSE IF y > n THEN n ELSE y

\* line 73: seq[a:b]
PySlice(seq, a, b) ==
    LET lo == SliceBound(a, Len(seq))
        hi == SliceBound(b, Len(seq))
    IN  IF lo >= hi THEN <<>> ELSE SubSeq(seq, lo + 1, hi)

\* lines 55-73
Cut ==
    /\ ap = "constructed"
    /\ \E ts \in -MaxTick..MaxTick, te \in -MaxTick..MaxTick :
          /\ cut_args' = <<ts, te>>
          /\ cut_out' = PySlice(waveform, CutStartIndex(ts, sr.v),
                                          CutEndIndex(te, sr.v))
    /\ UNCHANGED <<ap, waveform, sr, device, ap_err>>

\* -------------------------------------------------- Diariser.diarization
\* a Python dict: a function from the keys present to their values
EmptyDict == [key \in {} |-> 0]

DiaIdle ==
    /\ params = EmptyDict
    /\ kwargs = EmptyDict
    /\ model_calls = <<>>

\* keyword parameters of SpeakerDiarization.apply(self, file, ...)
ApplyParams == {"self", "file", "num_speakers", "min_speakers",
                "max_speakers", "return_embeddings", "hook"}

\* local variables of SpeakerDiarization.apply
ApplyLocals == {"segmentations", "embeddings", "diarization"}

\* line 301: code.co_varnames holds the names of the arguments followed by
\* the names of the function's local variables
CoVarnames(args, locals) == args \cup locals

PossibleKwargs == CoVarnames(ApplyParams, ApplyLocals)

\* lines 303-304: {k: v for k, v in kwargs.items() if k in _possible_kwargs}
FilterKwargs(kw, possible) ==
    [key \in {x \in DOMAIN kw : x \in possible} |-> kw[key]]

\* keys a caller of diarization(audiofile, **kwargs) can pass: accepted
\* parameters of apply, names of its locals, names unknown to it
CallerKeys == {"num_speakers", "hook", "segmentations", "verbose"}
KwargValues == {"v1", "v2"}
CallerKwargs == UNION {[ks -> KwargValues] : ks \in SUBSET CallerKeys}

\* line 84: self.model(audiofile, **kwargs) binds kwargs to the parameters
\* of apply; file is already bound to audiofile
ModelAccepts(kw) == \A key \in DOMAIN kw : key \in ApplyParams \ {"self", "file"}

DiaInit ==
    /\ pc = "dia_start"
    /\ params \in CallerKwargs
    /\ kwargs = params
    /\ model_calls = <<>>
    /\ dia_list = <<>>
    /\ normalized_output = <<>>
    /\ index_start_speaker = 0
    /\ index_end_speaker = 0
    /\ current_speaker = ""
    /\ i = 0
    /\ k = 0
    /\ diarization_output = EmptyOutput
    /\ err = "none"

\* line 82
DiaFilter ==
    /\ pc = "dia_start"
    /\ kwargs' = FilterKwargs(kwargs, PossibleKwargs)
    /\ pc' = "dia_call"
    /\ UNCHANGED <<params, model_calls, dia_list, normalized_output,
                   index_start_speaker, index_end_speaker, current_speaker,
                   i, k, diarization_output, err>>

\* lines 84-86: the model is invoked; it raises TypeError on a keyword it
\* has no parameter for, else it returns an annotation, which line 86 hands
\* to format_diarization_output (lines 103-109)
DiaInvoke ==
    /\ pc = "dia_call"
    /\ model_calls' = Append(model_calls, kwargs)
    /\ IF ModelAccepts(kwargs)
       THEN /\ dia_list' \in Traces
            /\ pc' = "start"
            /\ err' = err
       ELSE /\ err' = "TypeError"
            /\ pc' = "raised"
            /\ UNCHANGED dia_list
    /\ UNCHANGED <<params, kwargs, normalized_output, index_start_speaker,
                   index_end_speaker, current_speaker, i, k,
                   diarization_output>>

\* ------------------------------- Diariser._get_token / _save_token
Tokens == {"", "hf_A", "hf_B"}

NoFile == [exists |-> FALSE, content |-> ""]

\* variant: an empty token file is treated as a missing one
TokenExistsNonEmpty(f) == f.exists /\ f.content # ""

\* line 165: os.path.exists(TOKEN_PATH)
TokenExists(f) == f.exists

\* lines 165-172: what _get_token raises or returns
GetTokenResult(f) ==
    IF TokenExists(f)
    THEN [err |-> "none", ret |-> f.content]
    ELSE [err |-> "ValueError", ret |-> ""]

\* lines 183-184: open(TOKEN_PATH, 'w') truncates, write(token)
SaveTokenFile(f, token) == [exists |-> TRUE, content |-> token]

\* the tokens saved so far, the latest MaxSaved of them kept
Remember(hist, token) ==
    LET h == Append(hist, token)
    IN  IF Len(h) > MaxSaved THEN SubSeq(h, 2, Len(h)) ELSE h

StoreIdle ==
    /\ token_file = NoFile
    /\ saved = <<>>
    /\ config_seg = "segmentation.ckpt"
    /\ call = [op |-> "none"]

\* lines 174-184
SaveToken ==
    \E token \in Tokens :
        /\ token_file' = SaveTokenFile(token_file, token)
        /\ saved' = Remember(saved, token)
        /\ call' = [op |-> "save", token |-> token]
        /\ UNCHANGED config_seg

\* lines 152-172
GetToken ==
    /\ call' = [op |-> "get", out |-> GetTokenResult(token_file)]
    /\ UNCHANGED <<token_file, saved, config_seg>>

\* ------------------------------------------------ Diariser.load_model
\* weight files a call may find: the path the config names first, and the
\* .bin files beside the config file
DefaultBin == "pytorch_model.bin"
BinFiles == {DefaultBin, "a.bin", "b.bin"}
WeightFiles == {"segmentation.ckpt"} \cup BinFiles

None == <<>>

\* arguments and environment of one load_model call:
\*   mkind          type of model: str, tuple, or another type
\*   path_exists    os.path.exists(model)
\*   present        the weight files that exist
\*   bare           model holds no "/", so pwd is ""
\*   primary_found, secondary_found   HfApi().model_info finds model[0], model[1]
\*   use_auth_token, cache_token      as passed
\*   pretrained_ok  Pipeline.from_pretrained returns a pipeline, not None
LoadDefaults ==
    [mkind |-> "other", path_exists |-> FALSE, present |-> {}, bare |-> FALSE,
     primary_found |-> FALSE, secondary_found |-> FALSE,
     use_auth_token |-> None, cache_token |-> FALSE, pretrained_ok |-> TRUE]

LoadInputs ==
    {LoadDefaults}
    \cup {[LoadDefaults EXCEPT !.mkind = "str"]}
    \cup {[LoadDefaults EXCEPT !.mkind = "str", !.path_exists = TRUE,
                               !.present = p, !.bare = b, !.pretrained_ok = ok] :
             p \in SUBSET WeightFiles, b \in BOOLEAN, ok \in BOOLEAN}
    \cup {[LoadDefaults EXCEPT !.mkind = "tuple", !.primary_found = pf,
                               !.secondary_found = sf, !.use_auth_token = t,
                               !.cache_token = c, !.pretrained_ok = ok] :
             pf \in BOOLEAN, sf \in BOOLEAN,
             t \in {None} \cup {<<x>> : x \in Tokens},
             c \in BOOLEAN, ok \in BOOLEAN}

\* variant: line 240 accepts any non-empty list of .bin files
UniqueBinAny(bins) == Cardinality(bins) >= 1

\* line 240: len(bin_files) == 1
UniqueBin(bins) == Cardinality(bins) = 1

\* lines 219-251: the weight file the config ends up naming, or the error
LocalWeights(in, seg) ==
    IF seg \in in.present
    THEN [err |-> "none", seg |-> seg]
    ELSE IF DefaultBin \in in.present
    THEN [err |-> "none", seg |-> DefaultBin]
    ELSE IF in.bare
    THEN [err |-> "FileNotFoundError", seg |-> seg]    \* os.listdir("")
    ELSE LET bins == in.present \cap BinFiles
         IN  IF UniqueBin(bins)
             THEN [err |-> "none", seg |-> CHOOSE f \in bins : TRUE]
             ELSE [err |-> "FileNotFoundError", seg |-> seg]

\* lines 276-288: Pipeline.from_pretrained and the check of its result
FromPretrained(in, auth, seg, tf) ==
    [err |-> IF in.pretrained_ok THEN "none" ELSE "ValueError",
     pretrained_called |-> TRUE, auth |-> auth, seg |-> seg, token_file |-> tf,
     saved_token |-> None]

Raise(e, seg, tf) ==
    [err |-> e, pretrained_called |-> FALSE, auth |-> None, seg |-> seg,
     token_file |-> tf, saved_token |-> None]

\* lines 255-271: the (primary, secondary) tuple
RemoteLookup(in, seg, tf) ==
    IF in.primary_found
    THEN FromPretrained(in, None, seg, tf)
    ELSE IF ~in.secondary_found
    THEN Raise("RepositoryNotFoundError", seg, tf)
    ELSE LET caching == in.cache_token /\ in.use_auth_token # None
             tf1 == IF caching
                    THEN SaveTokenFile(tf, in.use_auth_token[1])
                    ELSE tf
             got == GetTokenResult(tf1)
             out == IF in.use_auth_token # None
                    THEN FromPretrained(in, in.use_auth_token, seg, tf1)
                    ELSE IF got.err # "none"
                    THEN Raise(got.err, seg, tf1)
                    ELSE FromPretrained(in, <<got.ret>>, seg, tf1)
         IN  [out EXCEPT !.saved_token =
                            IF caching THEN in.use_auth_token ELSE None]

\* lines 214-288
LoadOutcome(in, seg, tf) ==
    IF in.mkind = "str" /\ in.path_exists
    THEN LET w == LocalWeights(in, seg)
         IN  IF w.err # "none"
             THEN Raise(w.err, seg, tf)
             ELSE FromPretrained(in, in.use_auth_token, w.seg, tf)
    ELSE IF in.mkind = "tuple"
    THEN RemoteLookup(in, seg, tf)
    ELSE Raise("FileNotFoundError", seg, tf)

LoadModel ==
    \E in \in LoadInputs :
        LET out == LoadOutcome(in, config_seg, token_file)
        IN  /\ config_seg' = out.seg
            /\ token_file' = out.token_file
            /\ saved' = IF out.saved_token # None
                        THEN Remember(saved, out.saved_token[1])
                        ELSE saved
            /\ call' = [op |-> "load", in |-> in, seg |-> config_seg,
                        err |-> out.err,
                        pretrained_called |-> out.pretrained_called,
                        auth |-> out.auth]

FormatNext ==
    \/ FormatSingle /\ UNCHANGED <<audioVars, diaVars, storeVars>>
    \/ FormatEnterLoop /\ UNCHANGED <<audioVars, diaVars, storeVars>>
    \/ ScanIteration /\ UNCHANGED <<audioVars, diaVars, storeVars>>
    \/ ScanExhausted /\ UNCHANGED <<audioVars, diaVars, storeVars>>
    \/ BuildStep /\ UNCHANGED <<audioVars, diaVars, storeVars>>
    \/ FormatReturn /\ UNCHANGED <<audioVars, diaVars, storeVars>>

AudioNext ==
    \/ Construct /\ UNCHANGED <<fmtVars, diaVars, storeVars>>
    \/ Cut /\ UNCHANGED <<fmtVars, diaVars, storeVars>>

DiaNext ==
    \/ DiaFilter /\ UNCHANGED <<audioVars, storeVars>>
    \/ DiaInvoke /\ UNCHANGED <<audioVars, storeVars>>
    \/ FormatSingle /\ UNCHANGED <<audioVars, diaVars, storeVars>>
    \/ FormatEnterLoop /\ UNCHANGED <<audioVars, diaVars, storeVars>>
    \/ ScanIteration /\ UNCHANGED <<audioVars, diaVars, storeVars>>
    \/ ScanExhausted /\ UNCHANGED <<audioVars, diaVars, storeVars>>
    \/ BuildStep /\ UNCHANGED <<audioVars, diaVars, storeVars>>
    \/ FormatReturn /\ UNCHANGED <<audioVars, diaVars, storeVars>>

StoreNext ==
    \/ SaveToken /\ UNCHANGED <<fmtVars, audioVars, diaVars>>
    \/ GetToken /\ UNCHANGED <<fmtVars, audioVars, diaVars>>
    \/ LoadModel /\ UNCHANGED <<fmtVars, audioVars, diaVars>>

InitFormat == FormatInit /\ AudioIdle /\ DiaIdle /\ StoreIdle
InitAudio == FormatIdle /\ AudioIdle /\ DiaIdle /\ StoreIdle
InitDiarisation == DiaInit /\ AudioIdle /\ StoreIdle
InitStore == FormatIdle /\ AudioIdle /\ DiaIdle /\ StoreIdle

SpecFormat == InitFormat /\ [][FormatNext]_vars
SpecAudio == InitAudio /\ [][AudioNext]_vars
SpecDiarisation == InitDiarisation /\ [][DiaNext]_vars
SpecStore == InitStore /\ [][StoreNext]_vars

\* ---------------------------------------------- reference: maximal runs
SpeakerAt(dl, idx) == At(dl, idx)[3]

\* indices at which a maximal run of equal consecutive labels starts
RunStarts(dl) ==
    {j \in 0..(Len(dl) - 1) : j = 0 \/ SpeakerAt(dl, j) # SpeakerAt(dl, j - 1)}

\* last index of the maximal run that starts at s
RunEnd(dl, s) ==
    CHOOSE e \in s..(Len(dl) - 1) :
        /\ \A m \in s..e : SpeakerAt(dl, m) = SpeakerAt(dl, s)
        /\ e = Len(dl) - 1 \/ SpeakerAt(dl, e + 1) # SpeakerAt(dl, s)

RECURSIVE Ascending(_)
Ascending(S) ==
    IF S = {} THEN <<>>
    ELSE LET m == CHOOSE x \in S : \A y \in S : x <= y
         IN  <<m>> \o Ascending(S \ {m})

\* indices i in 1..N-1 with speaker_i # speaker_{i-1}
SpeakerChanges(dl) ==
    {j \in 1..(Len(dl) - 1) : SpeakerAt(dl, j) # SpeakerAt(dl, j - 1)}

Returned == pc = "done" /\ err = "none"
Finished == pc \in {"done", "raised"}

\* ------------------------------------------------------------------ claims

\* C1: for every non-empty raw trace, the returned output has no index at
\* which two consecutive entries carry the same speaker label.
C1_NoAdjacentEqualSpeakers ==
    (Finished /\ Len(dia_list) >= 1) =>
        /\ Returned
        /\ \A n \in 1..(Len(diarization_output.speakers) - 1) :
              diarization_output.speakers[n] # diarization_output.speakers[n + 1]

\* a merged trace was returned: two equal labels in a row went in
C1_Witness ==
    /\ Returned
    /\ \E j \in 1..(Len(dia_list) - 1) :
          SpeakerAt(dia_list, j) = SpeakerAt(dia_list, j - 1)
    /\ Len(diarization_output.speakers) >= 2

\* C2: for every non-empty raw trace, the n-th output entry is the n-th
\* maximal run of consecutive equal labels, in trace order: its label, and
\* [start of the run's first interval, end of the run's last interval];
\* non-adjacent runs of one label stay apart; speakers and segments are
\* index-aligned and of equal length.
C2_EntriesAreMaximalRuns ==
    (Finished /\ Len(dia_list) >= 1) =>
        LET starts == Ascending(RunStarts(dia_list))
            o == diarization_output
        IN  /\ Returned
            /\ Len(o.speakers) = Len(starts)
            /\ Len(o.segments) = Len(starts)
            /\ \A n \in 1..Len(starts) :
                  /\ o.speakers[n] = SpeakerAt(dia_list, starts[n])
                  /\ o.segments[n] =
                        <<At(dia_list, starts[n])[1].start,
                          At(dia_list, RunEnd(dia_list, starts[n]))[1].end>>

\* a label came back after another one (A, B, A) and a run of several
\* intervals was merged
C2_Witness ==
    /\ Returned
    /\ Len(diarization_output.speakers) >= 3
    /\ diarization_output.speakers[1] = diarization_output.speakers[3]
    /\ Len(dia_list) > Len(diarization_output.speakers)

\* C3: for every non-empty raw trace, the first output segment starts at
\* the first interval's start, the last one ends at the last interval's
\* end, and the raw indices the output entries cover partition 0..N-1:
\* every index lies in exactly one entry, entries follow each other without
\* a skipped index, and each segment is read off its entry's end points.
C3_SegmentsCoverTrace ==
    (Finished /\ Len(dia_list) >= 1) =>
        LET no == normalized_output
            o == diarization_output
            N == Len(dia_list)
        IN  /\ Returned
            /\ Len(no) >= 1
            /\ Len(o.segments) = Len(no)
            /\ o.segments[1][1] = At(dia_list, 0)[1].start
            /\ o.segments[Len(no)][2] = At(dia_list, N - 1)[1].end
            /\ no[1][1] = 0
            /\ no[Len(no)][2] = N - 1
            /\ \A n \in 1..Len(no) :
                  /\ no[n][1] <= no[n][2]
                  /\ o.segments[n] = <<At(dia_list, no[n][1])[1].start,
                                       At(dia_list, no[n][2])[1].end>>
            /\ \A n \in 1..(Len(no) - 1) : no[n + 1][1] = no[n][2] + 1
            /\ \A idx \in 0..(N - 1) :
                  Cardinality({n \in 1..Len(no) :
                                  no[n][1] <= idx /\ idx <= no[n][2]}) = 1

\* a trace of several runs, one of them longer than one interval, returned
C3_Witness ==
    /\ Returned
    /\ Len(normalized_output) >= 2
    /\ \E n \in 1..Len(normalized_output) :
          normalized_output[n][1] < normalized_output[n][2]

\* C7: for an empty raw trace the call returns the empty output
\* {"speakers": [], "segments": []} and raises nothing.
C7_EmptyTraceEmptyOutput ==
    (Finished /\ Len(dia_list) = 0) =>
        /\ Returned
        /\ diarization_output = EmptyOutput

C7_Witness == Returned /\ dia_list = <<>>

\* C10: for every non-empty raw trace the final run is emitted exactly
\* once, also when the speaker changes at the last index: the number of
\* emitted segments is 1 + the number of indices i in 1..N-1 with
\* speaker_i # speaker_{i-1}, and exactly one emitted entry ends at N-1.
C10_FinalRunEmittedOnce ==
    (Finished /\ Len(dia_list) >= 1) =>
        /\ Returned
        /\ Len(diarization_output.segments) =
              1 + Cardinality(SpeakerChanges(dia_list))
        /\ Cardinality({n \in 1..Len(normalized_output) :
                           normalized_output[n][2] = Len(dia_list) - 1}) = 1

\* the speaker changed at the last index N-1 of a longer trace
C10_Witness ==
    /\ Returned
    /\ Len(dia_list) >= 3
    /\ (Len(dia_list) - 1) \in SpeakerChanges(dia_list)
    /\ normalized_output[Len(normalized_output)] =
          <<Len(dia_list) - 1, Len(dia_list) - 1,
            SpeakerAt(dia_list, Len(dia_list) - 1)>>

\* floor of the rational a / b, b > 0
FloorDiv(a, b) == a \div b

\* the samples of w at the indices lo <= idx < hi with 0 <= idx < len(w)
SamplesInRange(w, lo, hi) ==
    LET a == IF lo < 0 THEN 0 ELSE lo
        b == IF hi > Len(w) THEN Len(w) ELSE hi
    IN  IF a >= b THEN <<>> ELSE SubSeq(w, a + 1, b)

\* C4: cut(start, end) returns exactly the samples at the indices idx with
\* floor(start*sr) <= idx < ceil(end*sr) and 0 <= idx < L, for every start
\* and end, negative ones included.
C4_CutReturnsClampedRange ==
    (ap = "constructed" /\ cut_args # <<>>) =>
        cut_out = SamplesInRange(waveform,
                                 FloorDiv(cut_args[1] * sr.v, TicksPerSecond),
                                 CeilDiv(cut_args[2] * sr.v, TicksPerSecond))

\* C5: constructing with a sample rate that is not a single int always
\* fails with ValueError, never with another error.
C5_NonIntRateIsValueError ==
    (ap # "new" /\ ~IsInt(sr)) => (ap = "raised" /\ ap_err = "ValueError")

\* the caller's keyword arguments restricted to the accepted parameter
\* names of SpeakerDiarization.apply
AcceptedOnly(kw) == [key \in {x \in DOMAIN kw : x \in ApplyParams} |-> kw[key]]

\* C6: the model is invoked with exactly the caller's keys that are
\* accepted parameter names of SpeakerDiarization.apply, values unchanged;
\* every other key is dropped without an error and never reaches the model.
C6_ModelGetsAcceptedKeysOnly ==
    (pc \notin {"dia_start", "dia_call"}) =>
        /\ model_calls = <<AcceptedOnly(params)>>
        /\ err = "none"

\* ---- the cases of load_model without a usable model

\* model is a string that is not an existing path
NotAPath(c) == c.in.mkind = "str" /\ ~c.in.path_exists

\* the config exists and all three lookups fail: the configured path, the
\* pytorch_model.bin beside the config, a unique *.bin in its directory
LookupExhausted(c) ==
    /\ c.in.mkind = "str" /\ c.in.path_exists
    /\ c.seg \notin c.in.present
    /\ DefaultBin \notin c.in.present
    /\ Cardinality(c.in.present \cap BinFiles) # 1

\* model is a (primary, secondary) tuple and the registry knows neither
NeitherResolves(c) ==
    c.in.mkind = "tuple" /\ ~c.in.primary_found /\ ~c.in.secondary_found

\* C8 as stated: in each of the three cases load_model fails with
\* FileNotFoundError and Pipeline.from_pretrained is not called.
C8_AlwaysFileNotFound ==
    (call.op = "load"
        /\ (NotAPath(call) \/ LookupExhausted(call) \/ NeitherResolves(call)))
    => (call.err = "FileNotFoundError" /\ ~call.pretrained_called)

\* C8 amended: a string that is no existing path and an exhausted local
\* lookup fail with FileNotFoundError; a tuple of which neither identifier
\* resolves fails with the registry's RepositoryNotFoundError, raised by the
\* second model_info call; in none of the three is from_pretrained called.
C8_NotFoundErrors ==
    call.op = "load" =>
        /\ (NotAPath(call) \/ LookupExhausted(call)) =>
              (call.err = "FileNotFoundError" /\ ~call.pretrained_called)
        /\ NeitherResolves(call) =>
              (call.err = "RepositoryNotFoundError" /\ ~call.pretrained_called)

\* a tuple of two unknown identifiers was tried after an earlier call had
\* rewritten the config to a weight file found beside it
C8_Witness ==
    /\ call.op = "load"
    /\ NeitherResolves(call)
    /\ call.err = "RepositoryNotFoundError"
    /\ config_seg \in BinFiles

\* C9: _get_token fails with ValueError exactly when no _save_token came
\* before it, else it returns the token of the latest _save_token; the
\* token file always holds the latest saved token, so _get_token leaves it
\* as it was.
C9_GetReturnsLatestSaved ==
    /\ token_file = IF saved = <<>> THEN NoFile
                    ELSE [exists |-> TRUE, content |-> saved[Len(saved)]]
    /\ call.op = "get" =>
          /\ call.out.err = "ValueError" <=> saved = <<>>
          /\ saved # <<>> =>
                (call.out.err = "none" /\ call.out.ret = saved[Len(saved)])

\* a token was saved over a different one and then read back
C9_Witness ==
    /\ call.op = "get"
    /\ Len(saved) >= 2
    /\ saved[Len(saved) - 1] # saved[Len(saved)]
    /\ call.out = [err |-> "none", ret |-> saved[Len(saved)]]

====
